---- MODULE Spec2Model ----
(***************************************************************************)
(* Model of the reliability / speed / batch calculator                     *)
(* (src/reliability.js and its earlier cost-only variant                   *)
(* src/unnamed/part_000).                                                  *)
(*                                                                         *)
(* JavaScript numbers are modelled as exact rationals n/d in lowest terms, *)
(* extended with the three non-finite values a JavaScript division can     *)
(* produce: d = 0 marks a non-finite value, n = 1 is Infinity, n = -1 is   *)
(* -Infinity and n = 0 is NaN.  The sign of zero is not modelled, and the   *)
(* rounding of IEEE doubles is modelled only where the script accumulates  *)
(* it: in the loop variable of findSweetSpotSweep2.                        *)
(***************************************************************************)
EXTENDS Integers, Sequences, FiniteSets, TLC

\* ------------------------------------------------------------------------
\* Numbers
\* ------------------------------------------------------------------------

IAbs(i) ==
  IF i < 0 THEN -i ELSE i

RECURSIVE Gcd(_, _)
Gcd(a, b) ==
  IF b = 0 THEN a ELSE Gcd(b, a % b)

Lcm(a, b) ==
  (a \div Gcd(a, b)) * b

\* the rational n/d (d > 0) in lowest terms
Q(n, d) ==
  LET g == Gcd(IAbs(n), d) IN [n |-> n \div g, d |-> d \div g]

Infinity ==
  [n |-> 1, d |-> 0]

NegInfinity ==
  [n |-> -1, d |-> 0]

NaN ==
  [n |-> 0, d |-> 0]

Zero ==
  [n |-> 0, d |-> 1]

One ==
  [n |-> 1, d |-> 1]

IsFinite(x) ==
  x.d # 0

IsNaN(x) ==
  x.d = 0 /\ x.n = 0

Sign(x) ==
  IF x.n > 0 THEN 1 ELSE IF x.n < 0 THEN -1 ELSE 0

SignedInf(s) ==
  IF s > 0 THEN Infinity ELSE IF s < 0 THEN NegInfinity ELSE NaN

\* unary minus
Neg(x) ==
  [n |-> -x.n, d |-> x.d]

\* x + y
Add(x, y) ==
  IF IsNaN(x) \/ IsNaN(y) THEN NaN
  ELSE IF ~IsFinite(x) /\ ~IsFinite(y) THEN (IF x.n = y.n THEN x ELSE NaN)
  ELSE IF ~IsFinite(x) THEN x
  ELSE IF ~IsFinite(y) THEN y
  ELSE LET l == Lcm(x.d, y.d)
       IN  Q(x.n * (l \div x.d) + y.n * (l \div y.d), l)

\* x - y
Sub(x, y) ==
  Add(x, Neg(y))

\* x * y
Mul(x, y) ==
  IF IsNaN(x) \/ IsNaN(y) THEN NaN
  ELSE IF ~IsFinite(x) \/ ~IsFinite(y) THEN SignedInf(Sign(x) * Sign(y))
  ELSE LET g1 == Gcd(IAbs(x.n), y.d)
           g2 == Gcd(IAbs(y.n), x.d)
       IN  Q((x.n \div g1) * (y.n \div g2), (x.d \div g2) * (y.d \div g1))

\* x / y: a zero divisor gives Infinity, -Infinity or NaN, never an exception
Div(x, y) ==
  IF IsNaN(x) \/ IsNaN(y) THEN NaN
  ELSE IF ~IsFinite(y) THEN (IF IsFinite(x) THEN Zero ELSE NaN)
  ELSE IF ~IsFinite(x) THEN (IF y.n < 0 THEN Neg(x) ELSE x)
  ELSE IF y.n = 0 THEN SignedInf(Sign(x))
  ELSE Mul(x, [n |-> Sign(y) * y.d, d |-> IAbs(y.n)])

\* three-way comparison of the finite rationals n1/d1 and n2/d2 by their
\* continued fractions, so that no cross product is formed
RECURSIVE CmpQ(_, _, _, _)
CmpQ(n1, d1, n2, d2) ==
  LET q1 == n1 \div d1
      q2 == n2 \div d2
      r1 == n1 % d1
      r2 == n2 % d2
  IN  IF q1 < q2 THEN -1
      ELSE IF q1 > q2 THEN 1
      ELSE IF r1 = 0 /\ r2 = 0 THEN 0
      ELSE IF r1 = 0 THEN -1
      ELSE IF r2 = 0 THEN 1
      ELSE CmpQ(d2, r2, d1, r1)

\* x < y: false as soon as one side is NaN
Lt(x, y) ==
  IF IsNaN(x) \/ IsNaN(y) THEN FALSE
  ELSE IF ~IsFinite(x) \/ ~IsFinite(y)
       THEN (IF IsFinite(x) THEN 0 ELSE x.n) < (IF IsFinite(y) THEN 0 ELSE y.n)
  ELSE CmpQ(x.n, x.d, y.n, y.d) = -1

\* x > y
Gt(x, y) ==
  Lt(y, x)

\* x <= y
Le(x, y) ==
  ~IsNaN(x) /\ ~IsNaN(y) /\ ~Lt(y, x)

\* Math.abs
MathAbs(x) ==
  [n |-> IAbs(x.n), d |-> x.d]

\* Math.floor: a non-finite argument is returned unchanged
MathFloor(x) ==
  IF IsFinite(x) THEN [n |-> x.n \div x.d, d |-> 1] ELSE x

\* Math.max
MathMax(x, y) ==
  IF IsNaN(x) \/ IsNaN(y) THEN NaN
  ELSE IF Lt(x, y) THEN y ELSE x

\* a whole number as a JavaScript number
Num(i) ==
  [n |-> i, d |-> 1]

\* ------------------------------------------------------------------------
\* 2-3. Expected cost, time and throughput under mandatory verification
\* ------------------------------------------------------------------------

\* a slip that charges the rework in proportion to p instead of 1 - p
costChargesSuccesses(a) ==
  Add(Add(a.w, a.C), Mul(a.p, a.F))

\* a slip that leaves the rework term out
costWithoutRework(a) ==
  Add(a.w, a.C)

\* w + C + (1 - p) * F
expectedCostWithVerification(a) ==
  Add(Add(a.w, a.C), Mul(Sub(One, a.p), a.F))

\* a slip that adds the rework time in proportion to p instead of 1 - p
timeChargesSuccesses(a) ==
  Add(Add(a.tWork, a.tVerify), Mul(a.p, a.tFix))

\* tWork + tVerify + (1 - p) * tFix
expectedTimeWithVerification(a) ==
  Add(Add(a.tWork, a.tVerify), Mul(Sub(One, a.p), a.tFix))

\* 1 / expectedTimePerJobHours, unguarded
jobsPerHour(expectedTimePerJobHours) ==
  Div(One, expectedTimePerJobHours)

\* ------------------------------------------------------------------------
\* 4. Compare two workers on cost and speed
\* ------------------------------------------------------------------------

\* const eps = 1e-9
eps ==
  [n |-> 1, d |-> 1000000000]

\* a slip that tests the signed difference instead of its magnitude
lowerSideSigned(a, b) ==
  IF Gt(Sub(a, b), eps)
  THEN (IF Lt(a, b) THEN "A" ELSE "B")
  ELSE "null"

\* a slip that names a winner already at a difference of exactly eps
lowerSideInclusive(a, b) ==
  IF ~Lt(MathAbs(Sub(a, b)), eps)
  THEN (IF Lt(a, b) THEN "A" ELSE "B")
  ELSE "null"

\* the label of the comparator: null within eps, else the lower side
lowerSide(a, b) ==
  IF Gt(MathAbs(Sub(a, b)), eps)
  THEN (IF Lt(a, b) THEN "A" ELSE "B")
  ELSE "null"

compareWorkersCostAndSpeed(workerA, workerB, sharedCost, sharedTime) ==
  LET costA == expectedCostWithVerification(
                 [p |-> workerA.p, w |-> workerA.w,
                  C |-> sharedCost.C, F |-> sharedCost.F])
      costB == expectedCostWithVerification(
                 [p |-> workerB.p, w |-> workerB.w,
                  C |-> sharedCost.C, F |-> sharedCost.F])
      timeA == expectedTimeWithVerification(
                 [p |-> workerA.p, tWork |-> workerA.tWork,
                  tVerify |-> sharedTime.tVerify, tFix |-> sharedTime.tFix])
      timeB == expectedTimeWithVerification(
                 [p |-> workerB.p, tWork |-> workerB.tWork,
                  tVerify |-> sharedTime.tVerify, tFix |-> sharedTime.tFix])
  IN  [cost |-> [costA |-> costA, costB |-> costB,
                 cheaper |-> lowerSide(costA, costB),
                 diff |-> MathAbs(Sub(costA, costB))],
       time |-> [timeA |-> timeA, timeB |-> timeB,
                 throughputA |-> jobsPerHour(timeA),
                 throughputB |-> jobsPerHour(timeB),
                 faster |-> lowerSide(timeA, timeB),
                 diff |-> MathAbs(Sub(timeA, timeB))]]

\* the comparator of the cost-only variant: no winner and a diff of 0 below
\* 1e-9, else the cheaper side and the difference of the two costs
compareWorkersWithVerification(workerA, workerB, shared) ==
  LET costA == expectedCostWithVerification(
                 [p |-> workerA.p, w |-> workerA.w,
                  C |-> shared.C, F |-> shared.F])
      costB == expectedCostWithVerification(
                 [p |-> workerB.p, w |-> workerB.w,
                  C |-> shared.C, F |-> shared.F])
  IN  IF Lt(MathAbs(Sub(costA, costB)), [n |-> 1, d |-> 1000000000])
      THEN [cheaper |-> "null", costA |-> costA, costB |-> costB,
            diff |-> Zero]
      ELSE IF Lt(costA, costB)
      THEN [cheaper |-> "A", costA |-> costA, costB |-> costB,
            diff |-> Sub(costB, costA)]
      ELSE [cheaper |-> "B", costA |-> costA, costB |-> costB,
            diff |-> Sub(costA, costB)]

\* ------------------------------------------------------------------------
\* 5. Reliability premium
\* ------------------------------------------------------------------------

\* a slip that prices the higher reliability alone, forgetting pLow
premiumOfHighAlone(a) ==
  Mul(a.pHigh, a.F)

\* (pHigh - pLow) * F
maxWagePremiumForHigherReliability(a) ==
  Mul(Sub(a.pHigh, a.pLow), a.F)

\* ------------------------------------------------------------------------
\* 6. Batch layer
\* ------------------------------------------------------------------------

\* a slip that counts one attempt too many in the batch's total cost
summarizeBatchOffByOne(a) ==
  LET costPerJob == expectedCostWithVerification(
                      [p |-> a.worker.p, w |-> a.worker.w,
                       C |-> a.sharedCost.C, F |-> a.sharedCost.F])
      timePerJob == expectedTimeWithVerification(
                      [p |-> a.worker.p, tWork |-> a.worker.tWork,
                       tVerify |-> a.sharedTime.tVerify,
                       tFix |-> a.sharedTime.tFix])
  IN  [label |-> a.label,
       attempts |-> a.attempts,
       p |-> a.worker.p,
       w |-> a.worker.w,
       costPerJob |-> costPerJob,
       timePerJob |-> timePerJob,
       totalCost |-> Mul(Add(a.attempts, One), costPerJob),
       totalTime |-> Mul(a.attempts, timePerJob),
       expectedCorrectFirstPass |-> Mul(a.worker.p, a.attempts),
       expectedWrongFirstPass |-> Mul(Sub(One, a.worker.p), a.attempts),
       finishedCorrectUnits |-> a.attempts]

summarizeBatchByAttempts(a) ==
  LET costPerJob == expectedCostWithVerification(
                      [p |-> a.worker.p, w |-> a.worker.w,
                       C |-> a.sharedCost.C, F |-> a.sharedCost.F])
      timePerJob == expectedTimeWithVerification(
                      [p |-> a.worker.p, tWork |-> a.worker.tWork,
                       tVerify |-> a.sharedTime.tVerify,
                       tFix |-> a.sharedTime.tFix])
  IN  [label |-> a.label,
       attempts |-> a.attempts,
       p |-> a.worker.p,
       w |-> a.worker.w,
       costPerJob |-> costPerJob,
       timePerJob |-> timePerJob,
       totalCost |-> Mul(a.attempts, costPerJob),
       totalTime |-> Mul(a.attempts, timePerJob),
       expectedCorrectFirstPass |-> Mul(a.worker.p, a.attempts),
       expectedWrongFirstPass |-> Mul(Sub(One, a.worker.p), a.attempts),
       finishedCorrectUnits |-> a.attempts]

\* a slip that rounds the quotient up, as Math.ceil would
attemptsRoundedUp(hours, timePerJob) ==
  Neg(MathFloor(Neg(Div(hours, timePerJob))))

\* Math.floor(sprintHours / timePerJob): the attempts that fit the budget
attemptsInBudget(hours, timePerJob) ==
  MathFloor(Div(hours, timePerJob))

\* ------------------------------------------------------------------------
\* 7. Scenario constants of the script
\* ------------------------------------------------------------------------

fastWorker ==
  [label |-> "Fast but sloppy dev", p |-> Q(7, 10),
   w |-> Mul(Num(120), Num(3)), tWork |-> Num(3)]

slowWorker ==
  [label |-> "Slow but careful dev", p |-> Q(95, 100),
   w |-> Mul(Num(120), Num(4)), tWork |-> Num(4)]

sharedCost ==
  [C |-> Mul(Num(160), Q(3, 4)), F |-> Mul(Num(140), Q(9, 4))]

sharedTime ==
  [tVerify |-> Q(3, 4), tFix |-> Q(9, 4)]

sprintHours ==
  Num(80)

unitPrices ==
  <<Num(600), Num(1000), Num(2000)>>

\* one pass of the unit-price loop of 7d
priceRow(P, fastBatch, slowBatch) ==
  LET revenueFast == Mul(fastBatch.finishedCorrectUnits, P)
      revenueSlow == Mul(slowBatch.finishedCorrectUnits, P)
      profitFast == Sub(revenueFast, fastBatch.totalCost)
      profitSlow == Sub(revenueSlow, slowBatch.totalCost)
      diff == Sub(profitFast, profitSlow)
  IN  [P |-> P, profitFast |-> profitFast, profitSlow |-> profitSlow,
       diff |-> diff,
       winner |-> IF Lt(MathAbs(diff), eps) THEN "Tie"
                  ELSE IF Gt(diff, Zero) THEN "Fast company ahead"
                  ELSE "Slow company ahead"]

\* ------------------------------------------------------------------------
\* 7e. Sweep 1: capped-linear speed, wage derived from the slow dev's rate
\* ------------------------------------------------------------------------

sweepUnitPrice ==
  Num(1000)

sweepSprintHours ==
  Num(80)

devHourlyRate ==
  Div(slowWorker.w, slowWorker.tWork)

speedFloor ==
  Q(1, 2)

\* a slip that forgets the floor
tWorkFastUncapped(pFast) ==
  Mul(slowWorker.tWork, Div(pFast, slowWorker.p))

tWorkFastCapped(pFast) ==
  LET linear == Mul(slowWorker.tWork, Div(pFast, slowWorker.p))
      minWork == Mul(slowWorker.tWork, speedFloor)
  IN  MathMax(linear, minWork)

\* 1e-6, the tolerance of the sweeps' winner column
tieEps ==
  [n |-> 1, d |-> 1000000]

\* a slip that calls a difference of exactly 1e-6 a tie
winnerSweep1Inclusive(profitDiff) ==
  IF Le(MathAbs(profitDiff), tieEps) THEN "Tie"
  ELSE IF Gt(profitDiff, Zero) THEN "Fast"
  ELSE "Slow"

\* winner of a row of sweep 1
winnerSweep1(profitDiff) ==
  IF Lt(MathAbs(profitDiff), tieEps) THEN "Tie"
  ELSE IF Gt(profitDiff, Zero) THEN "Fast"
  ELSE "Slow"

sweepPoints ==
  <<Q(90, 100), Q(80, 100), Q(70, 100), Q(60, 100), Q(50, 100), Q(40, 100),
    Q(30, 100), Q(20, 100), Q(18, 100), Q(16, 100), Q(14, 100), Q(12, 100),
    Q(10, 100), Q(0, 100)>>

\* the slow dev's profit over the sprint, computed once before the loop
slowBaselineSweep1 ==
  LET slowTimePerJobSweep == expectedTimeWithVerification(
                               [p |-> slowWorker.p, tWork |-> slowWorker.tWork,
                                tVerify |-> sharedTime.tVerify,
                                tFix |-> sharedTime.tFix])
      slowAttemptsSweep == attemptsInBudget(sweepSprintHours,
                                            slowTimePerJobSweep)
      slowBatchSweep == summarizeBatchByAttempts(
                          [label |-> slowWorker.label,
                           attempts |-> slowAttemptsSweep,
                           worker |-> slowWorker,
                           sharedCost |-> sharedCost,
                           sharedTime |-> sharedTime])
      slowRevenueSweep == Mul(slowBatchSweep.finishedCorrectUnits,
                              sweepUnitPrice)
  IN  [attempts |-> slowAttemptsSweep,
       profit |-> Sub(slowRevenueSweep, slowBatchSweep.totalCost)]

\* one row of sweep 1 (the batch's label, which formats pFast, is not kept)
sweepRow1(pFast, slowProfitSweep) ==
  LET tWorkFast == tWorkFastCapped(pFast)
      fastTimePerJobSweep == expectedTimeWithVerification(
                               [p |-> pFast, tWork |-> tWorkFast,
                                tVerify |-> sharedTime.tVerify,
                                tFix |-> sharedTime.tFix])
      fastAttemptsSweep == attemptsInBudget(sweepSprintHours,
                                            fastTimePerJobSweep)
      fastBatchSweep == summarizeBatchByAttempts(
                          [label |-> "Fast",
                           attempts |-> fastAttemptsSweep,
                           worker |-> [p |-> pFast,
                                       w |-> Mul(devHourlyRate, tWorkFast),
                                       tWork |-> tWorkFast],
                           sharedCost |-> sharedCost,
                           sharedTime |-> sharedTime])
      fastRevenueSweep == Mul(fastBatchSweep.finishedCorrectUnits,
                              sweepUnitPrice)
      fastProfitSweep == Sub(fastRevenueSweep, fastBatchSweep.totalCost)
      profitDiff == Sub(fastProfitSweep, slowProfitSweep)
  IN  [pFast |-> pFast, tWorkFast |-> tWorkFast,
       timePerJob |-> fastTimePerJobSweep,
       attempts |-> fastAttemptsSweep, profitFast |-> fastProfitSweep,
       profitDiff |-> profitDiff, winner |-> winnerSweep1(profitDiff)]

\* ------------------------------------------------------------------------
\* 7f. Sweep 2: cheap fast dev, expensive verifier, uncapped linear speed
\* ------------------------------------------------------------------------

sweep2UnitPrice ==
  Num(1000)

sweep2SprintHours ==
  Num(80)

slowDevRate ==
  Div(slowWorker.w, slowWorker.tWork)

fastDevRate ==
  Num(80)

verifierRate ==
  Num(180)

tVerify2 ==
  sharedTime.tVerify

tFix2 ==
  Num(4)

C2 ==
  sharedCost.C

F2 ==
  Mul(verifierRate, tFix2)

timeCostPerJobSweep2(p, tWork, hourlyRate) ==
  [timePerJob |-> expectedTimeWithVerification(
                    [p |-> p, tWork |-> tWork,
                     tVerify |-> tVerify2, tFix |-> tFix2]),
   costPerJob |-> expectedCostWithVerification(
                    [p |-> p, w |-> Mul(hourlyRate, tWork),
                     C |-> C2, F |-> F2])]

\* the slow dev's baseline of sweep 2
slowBaselineSweep2 ==
  LET slowTC2 == timeCostPerJobSweep2(slowWorker.p, slowWorker.tWork,
                                      slowDevRate)
      slowAttempts2 == attemptsInBudget(sweep2SprintHours, slowTC2.timePerJob)
      slowRevenue2 == Mul(slowAttempts2, sweep2UnitPrice)
      slowTotalCost2 == Mul(slowAttempts2, slowTC2.costPerJob)
  IN  [attempts |-> slowAttempts2,
       profit |-> Sub(slowRevenue2, slowTotalCost2)]

\* winner of a row of sweep 2
winnerSweep2(profitDiff) ==
  IF Lt(MathAbs(profitDiff), tieEps) THEN "Tie"
  ELSE IF Gt(profitDiff, Zero) THEN "Fast"
  ELSE "Slow"

pFastValues ==
  <<Q(90, 100), Q(85, 100), Q(80, 100), Q(75, 100), Q(70, 100), Q(65, 100),
    Q(60, 100), Q(55, 100), Q(50, 100), Q(45, 100), Q(40, 100), Q(30, 100),
    Q(20, 100)>>

\* attempts and profit of the fast dev at pFast: the body shared by the rows
\* of sweep 2 and by the sweet-spot scan
fastAtSweep2(pFast) ==
  LET tWorkFast == Mul(slowWorker.tWork, Div(pFast, slowWorker.p))
      tc == timeCostPerJobSweep2(pFast, tWorkFast, fastDevRate)
      attemptsFast == attemptsInBudget(sweep2SprintHours, tc.timePerJob)
      revenueFast == Mul(attemptsFast, sweep2UnitPrice)
      totalCostFast == Mul(attemptsFast, tc.costPerJob)
  IN  [pFast |-> pFast, tWorkFast |-> tWorkFast,
       timePerJob |-> tc.timePerJob, attempts |-> attemptsFast,
       profitFast |-> Sub(revenueFast, totalCostFast)]

\* one row of sweep 2
sweepRow2(pFast, slowProfit2) ==
  LET f == fastAtSweep2(pFast)
      profitDiff == Sub(f.profitFast, slowProfit2)
  IN  [pFast |-> pFast, tWorkFast |-> f.tWorkFast,
       timePerJob |-> f.timePerJob,
       attempts |-> f.attempts, profitFast |-> f.profitFast,
       profitDiff |-> profitDiff, winner |-> winnerSweep2(profitDiff)]

\* ------------------------------------------------------------------------
\* Sweet-spot search of sweep 2
\* ------------------------------------------------------------------------

\* The loop variable is the one number whose rounding decides anything: it
\* accumulates pFast += 0.01 in IEEE double arithmetic.  A double in [1/8, 1)
\* is held exactly as hi * 2^30 + lo, counted in units of 2^-59.
LimbBase ==
  2^30

Dbl(hi, lo) ==
  [hi |-> hi, lo |-> lo]

\* the double of the literal 0.2 (0x1.999999999999ap-3)
scanFirst ==
  Dbl(107374182, 429496736)

\* the double of the literal 0.01 (0x1.47ae147ae147bp-7)
scanStep ==
  Dbl(5368709, 128849019)

\* the double of 0.95 + 1e-9 (0x1.e666666efd6c5p-1)
scanLast ==
  Dbl(510027366, 1005957440)

\* x + y of two doubles whose sum lies in [1/8, 1): the exact sum, rounded to
\* the 53-bit significand of its binade, ties to even
DblAdd(x, y) ==
  LET lo0 == x.lo + y.lo
      elo == lo0 % LimbBase
      ehi == x.hi + y.hi + (lo0 \div LimbBase)
      ulp == IF ehi < 2^27 THEN 16 ELSE IF ehi < 2^28 THEN 32 ELSE 64
      r == elo % ulp
      down == elo - r
      up == 2 * r > ulp \/ (2 * r = ulp /\ (down \div ulp) % 2 = 1)
      rlo == IF up THEN down + ulp ELSE down
  IN  IF rlo = LimbBase THEN Dbl(ehi + 1, 0) ELSE Dbl(ehi, rlo)

\* x <= y of two doubles
DblLe(x, y) ==
  x.hi < y.hi \/ (x.hi = y.hi /\ x.lo <= y.lo)

\* the real number a double of the scan stands for, read to two decimals
\* (the double is within 1e-15 of it); the exact arithmetic of the loop body
\* is applied to this reading
DblReal(x) ==
  Q(((x.hi \div 2^9) * 100 + 2^19) \div 2^20, 100)

\* the null of best.pFast before the first grid point is taken
Null ==
  [null |-> TRUE]

\* let best = { pFast: null, profitFast: -Infinity, attempts: 0, tWorkFast: 0 }
bestInit ==
  [pFast |-> Null, profitFast |-> NegInfinity,
   attempts |-> Zero, tWorkFast |-> Zero]

\* pFast <= 0.95 + 1e-9
scanContinues(pFast) ==
  DblLe(pFast, scanLast)

\* a slip that also replaces best on an equal profit
bestAfterPointTakesTies(best, point) ==
  IF Le(best.profitFast, point.profitFast) THEN point ELSE best

\* if (profitFast > best.profitFast) best = { pFast, profitFast, ... }
bestAfterPoint(best, point) ==
  IF Gt(point.profitFast, best.profitFast) THEN point ELSE best

\* a slip that keeps the first grid point whatever follows
sweetSpotStepKeepsFirst(best, pFast) ==
  LET f == fastAtSweep2(DblReal(pFast))
  IN  IF best.pFast = Null
      THEN [pFast |-> pFast, profitFast |-> f.profitFast,
            attempts |-> f.attempts, tWorkFast |-> f.tWorkFast]
      ELSE best

\* the body of the scan: best is replaced on a strictly greater profit
sweetSpotStep(best, pFast) ==
  LET f == fastAtSweep2(DblReal(pFast))
  IN  bestAfterPoint(best,
                     [pFast |-> pFast, profitFast |-> f.profitFast,
                      attempts |-> f.attempts, tWorkFast |-> f.tWorkFast])

\* ------------------------------------------------------------------------
\* State
\* ------------------------------------------------------------------------

VARIABLES
  pc,       \* the statement of the script that runs next
  perJob,   \* 7a: the result of compareWorkersCostAndSpeed
  batch,    \* 7b: fastAttempts, slowAttempts, fastBatch, slowBatch
  premium,  \* 7c: the reliability premium
  fin,      \* 7d: breakEvenPrice and the rows of the unit-price loop
  sweep1,   \* 7e: the slow baseline and the rows printed so far
  sweep2,   \* 7f: the slow baseline and the rows printed so far
  pFast,    \* the loop variable of findSweetSpotSweep2
  best,     \* the best-so-far record of findSweetSpotSweep2
  scanned,  \* the grid points findSweetSpotSweep2 has visited, with profits
  call,     \* the last call of a function of the library, with its result
  prev      \* the call before it, when call repeats it with changed arguments

vars ==
  <<pc, perJob, batch, premium, fin, sweep1, sweep2, pFast, best, scanned,
    call, prev>>

scriptVars ==
  <<pc, perJob, batch, premium, fin, sweep1, sweep2, pFast, best, scanned>>

\* a value not yet assigned
Unset ==
  [unset |-> TRUE]

NoCall ==
  [fn |-> "none"]

\* ------------------------------------------------------------------------
\* The run of the script
\* ------------------------------------------------------------------------

Init ==
  /\ pc = "perJob"
  /\ perJob = Unset
  /\ batch = Unset
  /\ premium = Unset
  /\ fin = Unset
  /\ sweep1 = Unset
  /\ sweep2 = Unset
  /\ pFast = Unset
  /\ best = Unset
  /\ scanned = <<>>
  /\ call = NoCall
  /\ prev = NoCall

\* 7a
PerJobView ==
  /\ pc = "perJob"
  /\ perJob' = compareWorkersCostAndSpeed(fastWorker, slowWorker,
                                          sharedCost, sharedTime)
  /\ pc' = "batch"
  /\ UNCHANGED <<batch, premium, fin, sweep1, sweep2, pFast, best, scanned,
                 call, prev>>

\* 7b
BatchView ==
  /\ pc = "batch"
  /\ LET fastAttempts == attemptsInBudget(sprintHours, perJob.time.timeA)
         slowAttempts == attemptsInBudget(sprintHours, perJob.time.timeB)
     IN  batch' = [fastAttempts |-> fastAttempts,
                   slowAttempts |-> slowAttempts,
                   slowBatch |-> summarizeBatchByAttempts(
                                   [label |-> slowWorker.label,
                                    attempts |-> slowAttempts,
                                    worker |-> slowWorker,
                                    sharedCost |-> sharedCost,
                                    sharedTime |-> sharedTime]),
                   fastBatch |-> summarizeBatchByAttempts(
                                   [label |-> fastWorker.label,
                                    attempts |-> fastAttempts,
                                    worker |-> fastWorker,
                                    sharedCost |-> sharedCost,
                                    sharedTime |-> sharedTime])]
  /\ pc' = "premium"
  /\ UNCHANGED <<perJob, premium, fin, sweep1, sweep2, pFast, best, scanned,
                 call, prev>>

\* 7c
ReliabilityPremium ==
  /\ pc = "premium"
  /\ premium' = maxWagePremiumForHigherReliability(
                  [pLow |-> fastWorker.p, pHigh |-> slowWorker.p,
                   F |-> sharedCost.F])
  /\ pc' = "financial"
  /\ UNCHANGED <<perJob, batch, fin, sweep1, sweep2, pFast, best, scanned,
                 call, prev>>

\* 7d, up to the unit-price loop
FinancialComparison ==
  /\ pc = "financial"
  /\ LET extraUnits == Sub(batch.fastBatch.finishedCorrectUnits,
                           batch.slowBatch.finishedCorrectUnits)
         extraCost == Sub(batch.fastBatch.totalCost,
                          batch.slowBatch.totalCost)
     IN  fin' = [breakEvenPrice |-> Div(extraCost, extraUnits), rows |-> <<>>]
  /\ pc' = "prices"
  /\ UNCHANGED <<perJob, batch, premium, sweep1, sweep2, pFast, best,
                 scanned, call, prev>>

\* 7d, one pass of for (const P of unitPrices)
UnitPriceRow ==
  /\ pc = "prices"
  /\ Len(fin.rows) < Len(unitPrices)
  /\ fin' = [fin EXCEPT !.rows =
               Append(@, priceRow(unitPrices[Len(fin.rows) + 1],
                                  batch.fastBatch, batch.slowBatch))]
  /\ pc' = IF Len(fin.rows) + 1 = Len(unitPrices) THEN "sweep1" ELSE "prices"
  /\ UNCHANGED <<perJob, batch, premium, sweep1, sweep2, pFast, best,
                 scanned, call, prev>>

\* 7e, the baseline computed before the loop
Sweep1Baseline ==
  /\ pc = "sweep1"
  /\ sweep1' = [slowAttemptsSweep |-> slowBaselineSweep1.attempts,
                slowProfitSweep |-> slowBaselineSweep1.profit,
                rows |-> <<>>]
  /\ pc' = "sweep1rows"
  /\ UNCHANGED <<perJob, batch, premium, fin, sweep2, pFast, best, scanned,
                 call, prev>>

\* 7e, one pass of for (const pFast of sweepPoints)
Sweep1Row ==
  /\ pc = "sweep1rows"
  /\ Len(sweep1.rows) < Len(sweepPoints)
  /\ sweep1' = [sweep1 EXCEPT !.rows =
                  Append(@, sweepRow1(sweepPoints[Len(sweep1.rows) + 1],
                                      sweep1.slowProfitSweep))]
  /\ pc' = IF Len(sweep1.rows) + 1 = Len(sweepPoints)
           THEN "sweep2" ELSE "sweep1rows"
  /\ UNCHANGED <<perJob, batch, premium, fin, sweep2, pFast, best, scanned,
                 call, prev>>

\* 7f, the baseline computed before the loop
Sweep2Baseline ==
  /\ pc = "sweep2"
  /\ sweep2' = [slowAttempts2 |-> slowBaselineSweep2.attempts,
                slowProfit2 |-> slowBaselineSweep2.profit,
                rows |-> <<>>]
  /\ pc' = "sweep2rows"
  /\ UNCHANGED <<perJob, batch, premium, fin, sweep1, pFast, best, scanned,
                 call, prev>>

\* 7f, one pass of for (const pFast of pFastValues)
Sweep2Row ==
  /\ pc = "sweep2rows"
  /\ Len(sweep2.rows) < Len(pFastValues)
  /\ sweep2' = [sweep2 EXCEPT !.rows =
                  Append(@, sweepRow2(pFastValues[Len(sweep2.rows) + 1],
                                      sweep2.slowProfit2))]
  /\ pc' = IF Len(sweep2.rows) + 1 = Len(pFastValues)
           THEN "sweetSpot" ELSE "sweep2rows"
  /\ UNCHANGED <<perJob, batch, premium, fin, sweep1, pFast, best, scanned,
                 call, prev>>

\* findSweetSpotSweep2: let best = ...; let pFast = 0.2
SweetSpotStart ==
  /\ pc = "sweetSpot"
  /\ best' = bestInit
  /\ pFast' = scanFirst
  /\ pc' = "scan"
  /\ UNCHANGED <<perJob, batch, premium, fin, sweep1, sweep2, scanned,
                 call, prev>>

\* findSweetSpotSweep2: one pass of the for loop, with its pFast += 0.01
SweetSpotScan ==
  /\ pc = "scan"
  /\ scanContinues(pFast)
  /\ best' = sweetSpotStep(best, pFast)
  /\ LET f == fastAtSweep2(DblReal(pFast))
     IN  scanned' = Append(scanned,
                           [pFast |-> pFast, timePerJob |-> f.timePerJob,
                            attempts |-> f.attempts,
                            profitFast |-> f.profitFast])
  /\ pFast' = DblAdd(pFast, scanStep)
  /\ UNCHANGED <<pc, perJob, batch, premium, fin, sweep1, sweep2, call, prev>>

\* findSweetSpotSweep2: the loop ends and the sweet spot is reported
SweetSpotReport ==
  /\ pc = "scan"
  /\ ~scanContinues(pFast)
  /\ pc' = IF best.pFast = Null THEN "TypeError" ELSE "done"
  /\ UNCHANGED <<perJob, batch, premium, fin, sweep1, sweep2, pFast, best,
                 scanned, call, prev>>

Next ==
  \/ PerJobView
  \/ BatchView
  \/ ReliabilityPremium
  \/ FinancialComparison
  \/ UnitPriceRow
  \/ Sweep1Baseline
  \/ Sweep1Row
  \/ Sweep2Baseline
  \/ Sweep2Row
  \/ SweetSpotStart
  \/ SweetSpotScan
  \/ SweetSpotReport

Spec ==
  Init /\ [][Next]_vars

\* ------------------------------------------------------------------------
\* Calls of the library's functions on bounded inputs
\* ------------------------------------------------------------------------

\* amounts go up to MaxTiny halves of eps, so that differences fall below, on
\* and above the comparator's tolerance
MaxTiny ==
  3

\* coarse amounts go up to MaxCoarse quarters
MaxCoarse ==
  2

\* batches go up to MaxAttempts attempts
MaxAttempts ==
  3

\* profit differences go up to MaxDiff halves of 1e-6, on either side of zero
MaxDiff ==
  3

TinyAmounts ==
  {Q(k, 2000000000) : k \in 0..MaxTiny}

CoarseAmounts ==
  {Q(k, 4) : k \in 0..MaxCoarse}

Probs ==
  {Zero, Q(1, 2), One}

\* probabilities the functions accept although they lie outside [0,1]
OutOfRangeProbs ==
  {Q(-1, 4), Q(5, 4)}

\* workers whose p lies outside [0,1]
OutOfRangeWorkers ==
  [p : OutOfRangeProbs, w : {Q(1, 8)}, tWork : {Q(1, 8)}]

\* workers whose wage and work time differ by fractions of eps
Workers ==
  [p : Probs, w : TinyAmounts \cup {Q(1, 4)}, tWork : TinyAmounts \cup {Q(1, 4)}]

\* workers with coarse wage and work time, a zero work time included
CoarseWorkers ==
  [p : Probs, w : CoarseAmounts, tWork : CoarseAmounts]

SharedCosts ==
  {[C |-> Zero, F |-> Zero], [C |-> Q(1, 4), F |-> Q(1, 2)]}

SharedTimes ==
  {[tVerify |-> Zero, tFix |-> Zero], [tVerify |-> Zero, tFix |-> Q(1, 2)],
   [tVerify |-> Q(1, 4), tFix |-> Q(1, 2)]}

CostArgs ==
  [p : Probs \cup OutOfRangeProbs, w : TinyAmounts \cup CoarseAmounts,
   C : {Zero, Q(1, 4)}, F : {Zero, Q(1, 2)}]

TimeArgs ==
  [p : Probs \cup OutOfRangeProbs, tWork : CoarseAmounts,
   tVerify : {Zero, Q(1, 4)}, tFix : {Zero, Q(1, 2)}]

\* pLow and pHigh in quarters, in either order, and the script's 0.7 and 0.95
PremiumProbs ==
  {Q(k, 4) : k \in 0..4} \cup {fastWorker.p, slowWorker.p}

\* rework costs on either side of zero, and the script's F
PremiumCosts ==
  {Q(k, 4) : k \in -MaxCoarse..MaxCoarse} \cup {sharedCost.F}

PremiumArgs ==
  [pLow : PremiumProbs, pHigh : PremiumProbs, F : PremiumCosts]

\* pFast from below 0 to above 1 in steps of 0.05
PFastInputs ==
  {Q(k, 20) : k \in -2..22}

ProfitDiffs ==
  {Q(k, 2000000) : k \in -MaxDiff..MaxDiff} \cup {Num(2421), Num(-948)}

InitFn ==
  /\ pc = "library"
  /\ perJob = Unset
  /\ batch = Unset
  /\ premium = Unset
  /\ fin = Unset
  /\ sweep1 = Unset
  /\ sweep2 = Unset
  /\ pFast = Unset
  /\ best = Unset
  /\ scanned = <<>>
  /\ call = NoCall
  /\ prev = NoCall

\* Each behaviour makes one call, and may repeat it with changed arguments.
\* No function of the library throws: a call always returns its value
Returned(fn, args, ret) ==
  [fn |-> fn, args |-> args, ret |-> ret, threw |-> FALSE]

CallExpectedCost ==
  /\ call = NoCall
  /\ \E a \in CostArgs :
    /\ call' = Returned("expectedCostWithVerification", a,
                        expectedCostWithVerification(a))
    /\ prev' = NoCall
    /\ UNCHANGED scriptVars

\* the same w, C, F at another p
CallExpectedCostAgain ==
  /\ call.fn = "expectedCostWithVerification"
  /\ prev = NoCall
  /\ \E p2 \in Probs :
    /\ LET a == [call.args EXCEPT !.p = p2]
       IN  call' = Returned("expectedCostWithVerification", a,
                            expectedCostWithVerification(a))
    /\ prev' = call
    /\ UNCHANGED scriptVars

CallExpectedTime ==
  /\ call = NoCall
  /\ \E a \in TimeArgs :
    /\ call' = Returned("expectedTimeWithVerification", a,
                        expectedTimeWithVerification(a))
    /\ prev' = NoCall
    /\ UNCHANGED scriptVars

CallJobsPerHour ==
  /\ call = NoCall
  /\ \E w \in CoarseWorkers, st \in SharedTimes :
    /\ LET t == expectedTimeWithVerification(
                  [p |-> w.p, tWork |-> w.tWork,
                   tVerify |-> st.tVerify, tFix |-> st.tFix])
       IN  call' = Returned("jobsPerHour", [expectedTimePerJobHours |-> t],
                            jobsPerHour(t))
    /\ prev' = NoCall
    /\ UNCHANGED scriptVars

CallCompare ==
  /\ call = NoCall
  /\ \E a \in Workers \cup OutOfRangeWorkers,
        b \in Workers \cup OutOfRangeWorkers,
        sc \in SharedCosts, st \in SharedTimes :
    /\ call' = Returned("compareWorkersCostAndSpeed",
                        [workerA |-> a, workerB |-> b,
                         sharedCost |-> sc, sharedTime |-> st],
                        compareWorkersCostAndSpeed(a, b, sc, st))
    /\ prev' = NoCall
    /\ UNCHANGED scriptVars

\* the same call with the two workers swapped
CallCompareSwapped ==
  /\ call.fn = "compareWorkersCostAndSpeed"
  /\ prev = NoCall
  /\ LET a == call.args
     IN  call' = Returned("compareWorkersCostAndSpeed",
                          [workerA |-> a.workerB, workerB |-> a.workerA,
                           sharedCost |-> a.sharedCost,
                           sharedTime |-> a.sharedTime],
                          compareWorkersCostAndSpeed(a.workerB, a.workerA,
                                                     a.sharedCost,
                                                     a.sharedTime))
  /\ prev' = call
  /\ UNCHANGED scriptVars

\* workers of one work time, whose costs differ by fractions of eps
EqualPaceWorkers ==
  {w \in Workers : w.tWork = Q(1, 4)}

\* the comparator of the cost-only variant
CallCompareWithVerification ==
  /\ call = NoCall
  /\ \E a \in EqualPaceWorkers, b \in EqualPaceWorkers, sc \in SharedCosts :
    /\ call' = Returned("compareWorkersWithVerification",
                        [workerA |-> a, workerB |-> b, shared |-> sc],
                        compareWorkersWithVerification(a, b, sc))
    /\ prev' = NoCall
    /\ UNCHANGED scriptVars

\* the same workers and the same C, F given to compareWorkersCostAndSpeed
CallCompareSameWorkers ==
  /\ call.fn = "compareWorkersWithVerification"
  /\ prev = NoCall
  /\ \E st \in SharedTimes :
    /\ LET a == call.args
       IN  call' = Returned("compareWorkersCostAndSpeed",
                            [workerA |-> a.workerA, workerB |-> a.workerB,
                             sharedCost |-> a.shared, sharedTime |-> st],
                            compareWorkersCostAndSpeed(a.workerA, a.workerB,
                                                       a.shared, st))
    /\ prev' = call
    /\ UNCHANGED scriptVars

CallMaxWagePremium ==
  /\ call = NoCall
  /\ \E a \in PremiumArgs :
    /\ call' = Returned("maxWagePremiumForHigherReliability", a,
                        maxWagePremiumForHigherReliability(a))
    /\ prev' = NoCall
    /\ UNCHANGED scriptVars

\* a second call with F changed, or with pLow and pHigh changed
CallMaxWagePremiumAgain ==
  /\ call.fn = "maxWagePremiumForHigherReliability"
  /\ prev = NoCall
  /\ \E a \in PremiumArgs :
    /\ a.F = call.args.F
         \/ (a.pLow = call.args.pLow /\ a.pHigh = call.args.pHigh)
    /\ call' = Returned("maxWagePremiumForHigherReliability", a,
                        maxWagePremiumForHigherReliability(a))
    /\ prev' = call
    /\ UNCHANGED scriptVars

CallSummarizeBatch ==
  /\ call = NoCall
  /\ \E n \in 0..MaxAttempts, w \in CoarseWorkers \cup OutOfRangeWorkers,
        sc \in SharedCosts, st \in SharedTimes :
    /\ LET a == [label |-> "batch", attempts |-> Num(n), worker |-> w,
                 sharedCost |-> sc, sharedTime |-> st]
       IN  call' = Returned("summarizeBatchByAttempts", a,
                            summarizeBatchByAttempts(a))
    /\ prev' = NoCall
    /\ UNCHANGED scriptVars

\* the batch of a sprint as 7b, 7e and 7f build it: attempts from the budget,
\* the summary of that many attempts, and the profit at the unit price
sprintBatch(worker, sc, st) ==
  LET timePerJob == expectedTimeWithVerification(
                      [p |-> worker.p, tWork |-> worker.tWork,
                       tVerify |-> st.tVerify, tFix |-> st.tFix])
      attempts == attemptsInBudget(sprintHours, timePerJob)
      summary == summarizeBatchByAttempts(
                   [label |-> "batch", attempts |-> attempts,
                    worker |-> worker, sharedCost |-> sc, sharedTime |-> st])
      revenue == Mul(summary.finishedCorrectUnits, sweepUnitPrice)
  IN  [timePerJob |-> timePerJob, attempts |-> attempts, summary |-> summary,
       profit |-> Sub(revenue, summary.totalCost)]

CallSprintBatch ==
  /\ call = NoCall
  /\ \E w \in CoarseWorkers, sc \in SharedCosts, st \in SharedTimes :
    /\ call' = Returned("sprintBatch",
                        [worker |-> w, sharedCost |-> sc, sharedTime |-> st],
                        sprintBatch(w, sc, st))
    /\ prev' = NoCall
    /\ UNCHANGED scriptVars

CallTWorkFastCapped ==
  /\ call = NoCall
  /\ \E p \in PFastInputs :
    /\ call' = Returned("tWorkFastCapped", [pFast |-> p], tWorkFastCapped(p))
    /\ prev' = NoCall
    /\ UNCHANGED scriptVars

CallWinnerSweep1 ==
  /\ call = NoCall
  /\ \E d \in ProfitDiffs :
    /\ call' = Returned("winnerSweep1", [profitDiff |-> d], winnerSweep1(d))
    /\ prev' = NoCall
    /\ UNCHANGED scriptVars

CallWinnerSweep2 ==
  /\ call = NoCall
  /\ \E d \in ProfitDiffs :
    /\ call' = Returned("winnerSweep2", [profitDiff |-> d], winnerSweep2(d))
    /\ prev' = NoCall
    /\ UNCHANGED scriptVars

NextFn ==
  \/ CallExpectedCost
  \/ CallExpectedCostAgain
  \/ CallExpectedTime
  \/ CallJobsPerHour
  \/ CallCompare
  \/ CallCompareSwapped
  \/ CallCompareWithVerification
  \/ CallCompareSameWorkers
  \/ CallMaxWagePremium
  \/ CallMaxWagePremiumAgain
  \/ CallSummarizeBatch
  \/ CallSprintBatch
  \/ CallTWorkFastCapped
  \/ CallWinnerSweep1
  \/ CallWinnerSweep2

SpecFn ==
  InitFn /\ [][NextFn]_vars

\* ------------------------------------------------------------------------
\* The scan of findSweetSpotSweep2 on its own
\* ------------------------------------------------------------------------

\* The script's constants make profitFast rise from each grid point to the
\* next, so its own scan never meets two points of equal profit.  Beside the
\* script's scan, the loop is therefore also run over the first MaxScan grid
\* points with the profit of each point as an input.
MaxScan ==
  4

\* profits go up to MaxProfit
MaxProfit ==
  2

DrawnProfits ==
  {Num(k) : k \in 0..MaxProfit}

\* the state at the call of findSweetSpotSweep2; what the function does not
\* read is left unset
InitScan ==
  /\ pc \in {"sweetSpot", "drawn"}
  /\ perJob = Unset
  /\ batch = Unset
  /\ premium = Unset
  /\ fin = Unset
  /\ sweep1 = Unset
  /\ sweep2 = Unset
  /\ pFast = Unset
  /\ best = Unset
  /\ scanned = <<>>
  /\ call = NoCall
  /\ prev = NoCall

\* let best = ...; let pFast = 0.2
DrawnScanStart ==
  /\ pc = "drawn"
  /\ best' = bestInit
  /\ pFast' = scanFirst
  /\ pc' = "drawnScan"
  /\ UNCHANGED <<perJob, batch, premium, fin, sweep1, sweep2, scanned,
                 call, prev>>

\* one pass of the for loop at a point whose profitFast is profit
DrawnScanStep ==
  /\ pc = "drawnScan"
  /\ Len(scanned) < MaxScan
  /\ scanContinues(pFast)
  /\ \E profit \in DrawnProfits :
    LET f == fastAtSweep2(DblReal(pFast))
    IN  /\ best' = bestAfterPoint(best,
                                  [pFast |-> pFast, profitFast |-> profit,
                                   attempts |-> f.attempts,
                                   tWorkFast |-> f.tWorkFast])
        /\ scanned' = Append(scanned,
                             [pFast |-> pFast, timePerJob |-> f.timePerJob,
                              attempts |-> f.attempts,
                              profitFast |-> profit])
  /\ pFast' = DblAdd(pFast, scanStep)
  /\ UNCHANGED <<pc, perJob, batch, premium, fin, sweep1, sweep2, call, prev>>

\* the loop ends and the sweet spot is reported
DrawnScanReport ==
  /\ pc = "drawnScan"
  /\ Len(scanned) = MaxScan \/ ~scanContinues(pFast)
  /\ pc' = IF best.pFast = Null THEN "TypeError" ELSE "done"
  /\ UNCHANGED <<perJob, batch, premium, fin, sweep1, sweep2, pFast, best,
                 scanned, call, prev>>

NextScan ==
  \/ SweetSpotStart
  \/ SweetSpotScan
  \/ SweetSpotReport
  \/ DrawnScanStart
  \/ DrawnScanStep
  \/ DrawnScanReport

SpecScan ==
  InitScan /\ [][NextScan]_vars

\* ------------------------------------------------------------------------
\* Properties
\* ------------------------------------------------------------------------

InUnit(p) ==
  Le(Zero, p) /\ Le(p, One)

IsCostCall(c) ==
  c.fn = "expectedCostWithVerification" /\ InUnit(c.args.p)
  /\ Le(Zero, c.args.w) /\ Le(Zero, c.args.C) /\ Le(Zero, c.args.F)

\* C1: for p in [0,1] and w, C, F >= 0 the expected cost is w + C + (1-p)*F
\* (so cost - w - C = F - p*F), it is w + C at p = 1 and w + C + F at p = 0,
\* and at a p no smaller, with the same w, C, F, the cost is no higher.
C1_CostFormulaNonIncreasing ==
  IsCostCall(call) =>
    /\ ~call.threw
    /\ Sub(Sub(call.ret, call.args.w), call.args.C)
         = Sub(call.args.F, Mul(call.args.p, call.args.F))
    /\ call.args.p = One => call.ret = Add(call.args.w, call.args.C)
    /\ call.args.p = Zero =>
         call.ret = Add(Add(call.args.w, call.args.C), call.args.F)
    /\ IsCostCall(prev) /\ Le(prev.args.p, call.args.p) =>
         Le(call.ret, prev.ret)

\* C1 witness: the cost was computed at some p and again at p = 1, and came
\* out lower.
C1_Witness ==
  /\ IsCostCall(call) /\ IsCostCall(prev)
  /\ Lt(prev.args.p, call.args.p) /\ call.args.p = One
  /\ Lt(call.ret, prev.ret)

\* C2 as stated: at a strictly higher p, with the same w, C, F >= 0 (F = 0
\* included), the expected cost is strictly lower.
C2_StrictlyDecreasingForAllF ==
  IsCostCall(call) /\ IsCostCall(prev) /\ Lt(prev.args.p, call.args.p) =>
    Lt(call.ret, prev.ret)

\* C2 as amended: at a strictly higher p the expected cost is strictly lower
\* when F > 0 and unchanged when F = 0.
C2_StrictlyDecreasingWhenFPositive ==
  IsCostCall(call) /\ IsCostCall(prev) /\ Lt(prev.args.p, call.args.p) =>
    /\ Gt(call.args.F, Zero) => Lt(call.ret, prev.ret)
    /\ call.args.F = Zero => call.ret = prev.ret

\* C2 witness: with F > 0 the cost at p = 1/2 came out below the cost at 0.
C2_Witness ==
  /\ IsCostCall(call) /\ IsCostCall(prev)
  /\ prev.args.p = Zero /\ call.args.p = Q(1, 2)
  /\ Gt(call.args.F, Zero)
  /\ Lt(call.ret, prev.ret)

\* C3: with the script's default scenario the per-job comparison yields
\* costA = 574.5, costB = 615.75, timeA = 4.425, timeB = 4.8625, and labels
\* the fast worker (A) both cheaper and faster.
C3_DefaultScenario ==
  pc # "perJob" =>
    /\ perJob.cost.costA = Q(5745, 10)
    /\ perJob.cost.costB = Q(61575, 100)
    /\ perJob.time.timeA = Q(4425, 1000)
    /\ perJob.time.timeB = Q(48625, 10000)
    /\ perJob.cost.cheaper = "A"
    /\ perJob.time.faster = "A"

\* C3 witness: the per-job view has run and the batch view is next.
C3_Witness ==
  pc = "batch" /\ perJob.cost.cheaper = "A" /\ perJob.time.faster = "A"

\* C4: a batch of attempts >= 0 has totalCost = attempts * costPerJob,
\* totalTime = attempts * timePerJob and finishedCorrectUnits = attempts, with
\* the worker's per-job cost and time; a batch of zero attempts is returned
\* like any other and its totals are 0.
C4_BatchTotals ==
  call.fn = "summarizeBatchByAttempts" =>
    LET a == call.args
        costPerJob == Add(Add(a.worker.w, a.sharedCost.C),
                          Mul(Sub(One, a.worker.p), a.sharedCost.F))
        timePerJob == Add(Add(a.worker.tWork, a.sharedTime.tVerify),
                          Mul(Sub(One, a.worker.p), a.sharedTime.tFix))
    IN  /\ ~call.threw
        /\ call.ret.costPerJob = costPerJob
        /\ call.ret.timePerJob = timePerJob
        /\ call.ret.totalCost = Mul(a.attempts, costPerJob)
        /\ call.ret.totalTime = Mul(a.attempts, timePerJob)
        /\ call.ret.finishedCorrectUnits = a.attempts
        /\ a.attempts = Zero =>
             call.ret.totalCost = Zero /\ call.ret.totalTime = Zero

\* C4 witness: a batch of two attempts at a positive cost and time per job.
C4_Witness ==
  /\ call.fn = "summarizeBatchByAttempts"
  /\ call.args.attempts = Num(2)
  /\ Gt(call.ret.costPerJob, Zero) /\ Gt(call.ret.timePerJob, Zero)
  /\ call.ret.totalCost = Add(call.ret.costPerJob, call.ret.costPerJob)

Opposite(x, y) ==
  \/ x = "A" /\ y = "B"
  \/ x = "B" /\ y = "A"
  \/ x = "null" /\ y = "null"

IsSwappedCompare ==
  /\ call.fn = "compareWorkersCostAndSpeed"
  /\ prev.fn = "compareWorkersCostAndSpeed"
  /\ call.args.workerA = prev.args.workerB
  /\ call.args.workerB = prev.args.workerA
  /\ call.args.sharedCost = prev.args.sharedCost
  /\ call.args.sharedTime = prev.args.sharedTime

\* C5: the comparison of (A, B) and the comparison of (B, A) report opposite
\* cheaper labels and opposite faster labels (or null in both), and the same
\* cost.diff and time.diff.
C5_ComparatorSymmetry ==
  IsSwappedCompare =>
    /\ Opposite(prev.ret.cost.cheaper, call.ret.cost.cheaper)
    /\ Opposite(prev.ret.time.faster, call.ret.time.faster)
    /\ call.ret.cost.diff = prev.ret.cost.diff
    /\ call.ret.time.diff = prev.ret.time.diff

\* C5 witness: A was cheaper and B faster; after the swap B is cheaper and A
\* faster.
C5_Witness ==
  /\ IsSwappedCompare
  /\ prev.ret.cost.cheaper = "A" /\ call.ret.cost.cheaper = "B"
  /\ prev.ret.time.faster = "B" /\ call.ret.time.faster = "A"

LabelWithinTolerance(label, a, b) ==
  LET d == MathAbs(Sub(a, b))
  IN  /\ label \in {"A", "B", "null"}
      /\ label = "A" <=> (Gt(d, eps) /\ Lt(a, b))
      /\ label = "B" <=> (Gt(d, eps) /\ Lt(b, a))
      /\ label = "null" <=> Le(d, eps)

\* C6: cheaper (faster) names the side with the strictly lower cost (time)
\* exactly when the two differ by more than eps = 1e-9, and is null otherwise,
\* a difference of exactly eps included.
C6_WinnerBeyondTolerance ==
  call.fn = "compareWorkersCostAndSpeed" =>
    /\ LabelWithinTolerance(call.ret.cost.cheaper,
                            call.ret.cost.costA, call.ret.cost.costB)
    /\ LabelWithinTolerance(call.ret.time.faster,
                            call.ret.time.timeA, call.ret.time.timeB)

\* C6 witness: the costs differ by exactly eps and no side is named cheaper,
\* while the times differ by more and a side is named faster.
C6_Witness ==
  /\ call.fn = "compareWorkersCostAndSpeed"
  /\ MathAbs(Sub(call.ret.cost.costA, call.ret.cost.costB)) = eps
  /\ call.ret.cost.cheaper = "null"
  /\ call.ret.time.faster = "A"

IsWinnerCall ==
  call.fn \in {"winnerSweep1", "winnerSweep2"}

C8_CappedAtSpeedFloor ==
  call.fn = "tWorkFastCapped" =>
    LET floor == Mul(Q(1, 2), slowWorker.tWork)
        linear == Mul(slowWorker.tWork, Div(call.args.pFast, slowWorker.p))
    IN  /\ Le(floor, call.ret)
        /\ call.args.pFast = Zero => call.ret = floor
        /\ Le(floor, linear) => call.ret = linear

\* C8 witness: at pFast = 0 the work time is the floor, 2 hours.
C8_Witness ==
  /\ call.fn = "tWorkFastCapped"
  /\ call.args.pFast = Zero
  /\ call.ret = Num(2)

\* the double of the literal 0.95 (0x1.e666666666666p-1)
C9_Point95 ==
  Dbl(510027366, 429496704)

BestIsArgmaxWithin(upper) ==
  /\ pc # "TypeError"
  /\ pc = "done" =>
       /\ best.pFast # Null
       /\ \E i \in 1..Len(scanned) : scanned[i].pFast = best.pFast
       /\ DblLe(scanFirst, best.pFast)
       /\ DblLe(best.pFast, upper)
       /\ \A i \in 1..Len(scanned) :
            Le(scanned[i].profitFast, best.profitFast)

\* C9 as stated: when the scan finishes, best.pFast is one of the scanned
\* points, not null and within [0.2, 0.95], and best.profitFast is at least
\* the profit of every scanned point.
C9_BestWithinDomain ==
  BestIsArgmaxWithin(C9_Point95)

\* C9 as amended: when the scan finishes, best.pFast is one of the scanned
\* points, not null and within [0.2, 0.95 + 1e-9], the bound of the loop, and
\* best.profitFast is at least the profit of every scanned point.
C9_BestWithinLoopBound ==
  BestIsArgmaxWithin(scanLast)

\* C9 witness: the scan has finished after 76 points with a best point.
C9_Witness ==
  pc = "done" /\ Len(scanned) = 76 /\ best.pFast # Null

\* C10: when timePerJob <= 0, jobsPerHour and the attempts-from-budget
\* computation end in an error; they never return Infinity or NaN that flows
\* on into batch totals and profit.
C10_DegenerateTimeFails ==
  /\ call.fn = "jobsPerHour"
       /\ Le(call.args.expectedTimePerJobHours, Zero) => call.threw
  /\ call.fn = "sprintBatch" /\ Le(call.ret.timePerJob, Zero) => call.threw
  /\ call.fn = "sprintBatch" /\ ~call.threw =>
       /\ IsFinite(call.ret.attempts)
       /\ IsFinite(call.ret.summary.totalCost)
       /\ IsFinite(call.ret.profit)

\* C11: a worker whose p lies outside [0,1] is rejected with a validation
\* error: no call of expectedCostWithVerification, expectedTimeWithVerification,
\* compareWorkersCostAndSpeed or summarizeBatchByAttempts returns a cost, a
\* time or a batch summary for p < 0 or p > 1.
C11_InvalidProbabilityRejected ==
  /\ call.fn \in {"expectedCostWithVerification",
                  "expectedTimeWithVerification"}
       /\ ~InUnit(call.args.p) => call.threw
  /\ call.fn = "compareWorkersCostAndSpeed"
       /\ (~InUnit(call.args.workerA.p) \/ ~InUnit(call.args.workerB.p))
       => call.threw
  /\ call.fn = "summarizeBatchByAttempts" /\ ~InUnit(call.args.worker.p)
       => call.threw

IsPremiumCall(c) ==
  c.fn = "maxWagePremiumForHigherReliability"

\* C12: maxWagePremiumForHigherReliability returns (pHigh - pLow) * F, that
\* is pHigh * F - pLow * F: 0 whenever pHigh = pLow, >= 0 when pHigh >= pLow
\* and F >= 0, negative (and returned, not an error) when pHigh < pLow and
\* F > 0; and it is linear: with pLow and pHigh kept, two premiums are in the
\* ratio of their F, and with F kept, in the ratio of their pHigh - pLow.
C12_PremiumLinear ==
  IsPremiumCall(call) =>
    LET a == call.args
    IN  /\ ~call.threw
        /\ call.ret = Sub(Mul(a.pHigh, a.F), Mul(a.pLow, a.F))
        /\ a.pHigh = a.pLow => call.ret = Zero
        /\ Le(a.pLow, a.pHigh) /\ Le(Zero, a.F) => Le(Zero, call.ret)
        /\ Lt(a.pHigh, a.pLow) /\ Gt(a.F, Zero) => Lt(call.ret, Zero)
        /\ IsPremiumCall(prev) /\ prev.args.pLow = a.pLow
             /\ prev.args.pHigh = a.pHigh =>
               Mul(call.ret, prev.args.F) = Mul(prev.ret, a.F)
        /\ IsPremiumCall(prev) /\ prev.args.F = a.F =>
               Mul(call.ret, Sub(prev.args.pHigh, prev.args.pLow))
                 = Mul(prev.ret, Sub(a.pHigh, a.pLow))

\* C12 witness: with pHigh below pLow the premium at F = 1/4 was negative,
\* and at F = 1/2 it came out twice as negative.
C12_Witness ==
  /\ IsPremiumCall(call) /\ IsPremiumCall(prev)
  /\ Lt(call.args.pHigh, call.args.pLow)
  /\ prev.args.pLow = call.args.pLow /\ prev.args.pHigh = call.args.pHigh
  /\ prev.args.F = Q(1, 4) /\ call.args.F = Q(1, 2)
  /\ Lt(prev.ret, Zero)
  /\ call.ret = Add(prev.ret, prev.ret)

\* attempts is the largest whole number >= 0 of jobs of timePerJob > 0 hours
\* that fit into the budget
FillsBudget(attempts, timePerJob, hours) ==
  Gt(timePerJob, Zero) =>
    /\ IsFinite(attempts) /\ attempts.d = 1 /\ attempts.n >= 0
    /\ Le(Mul(attempts, timePerJob), hours)
    /\ Gt(Mul(Add(attempts, One), timePerJob), hours)

\* C13: in the 80-hour batch view, in every row of both sweeps and in every
\* iteration of the sweet-spot search, whenever timePerJob > 0 the attempts
\* count is the largest n >= 0 with n * timePerJob <= 80: attempts *
\* timePerJob does not exceed the budget and (attempts + 1) * timePerJob does.
C13_AttemptsFillBudget ==
  /\ batch # Unset =>
       /\ FillsBudget(batch.fastAttempts, batch.fastBatch.timePerJob, Num(80))
       /\ FillsBudget(batch.slowAttempts, batch.slowBatch.timePerJob, Num(80))
       /\ batch.fastBatch.attempts = batch.fastAttempts
       /\ batch.slowBatch.attempts = batch.slowAttempts
  /\ sweep1 # Unset =>
       \A i \in 1..Len(sweep1.rows) :
         FillsBudget(sweep1.rows[i].attempts, sweep1.rows[i].timePerJob,
                     Num(80))
  /\ sweep2 # Unset =>
       \A i \in 1..Len(sweep2.rows) :
         FillsBudget(sweep2.rows[i].attempts, sweep2.rows[i].timePerJob,
                     Num(80))
  /\ \A i \in 1..Len(scanned) :
       FillsBudget(scanned[i].attempts, scanned[i].timePerJob, Num(80))

\* C13 witness: the script has finished; the fast worker's 4.425 hours per
\* job gave 18 attempts, the last row of sweep 1 (pFast = 0, 5 hours per job)
\* fills the 80 hours exactly with 16 attempts, and all 76 points of the scan
\* have their attempts.
C13_Witness ==
  /\ pc = "done"
  /\ batch.fastAttempts = Num(18)
  /\ Len(sweep1.rows) = Len(sweepPoints)
  /\ sweep1.rows[Len(sweepPoints)].attempts = Num(16)
  /\ Mul(sweep1.rows[Len(sweepPoints)].attempts,
         sweep1.rows[Len(sweepPoints)].timePerJob) = Num(80)
  /\ Len(sweep2.rows) = Len(pFastValues)
  /\ Len(scanned) = 76
  /\ \A i \in 1..Len(scanned) : Gt(scanned[i].timePerJob, Zero)

\* best is the first of the points visited so far that has the highest profit
BestIsFirstMaximum ==
  Len(scanned) >= 1 =>
    \E i \in 1..Len(scanned) :
      /\ best.pFast = scanned[i].pFast
      /\ best.profitFast = scanned[i].profitFast
      /\ \A j \in 1..Len(scanned) :
           /\ Le(scanned[j].profitFast, best.profitFast)
           /\ j < i => Lt(scanned[j].profitFast, best.profitFast)
           /\ scanned[j].profitFast = best.profitFast =>
                DblLe(best.pFast, scanned[j].pFast)

\* an iteration never lowers best.profitFast and replaces best only by the
\* point it visits, and only when that point's profit is strictly greater
BestReplacedOnlyByGreater ==
  Len(scanned') = Len(scanned) + 1 =>
    LET point == scanned'[Len(scanned')]
    IN  /\ Le(best.profitFast, best'.profitFast)
        /\ best' # best =>
             /\ Gt(point.profitFast, best.profitFast)
             /\ best'.pFast = point.pFast
             /\ best'.profitFast = point.profitFast
        /\ ~Gt(point.profitFast, best.profitFast) => best' = best

\* C14: during the scan of findSweetSpotSweep2, after each iteration
\* best.profitFast is the maximum profit over the grid points visited so
\* far, it never decreases from one iteration to the next, and best is
\* replaced only when the current point's profit is strictly greater, so that
\* of several points of equal maximal profit the first visited, the one with
\* the smallest pFast, is the one kept and reported.
C14_BestIsRunningMaximum ==
  []BestIsFirstMaximum /\ [][BestReplacedOnlyByGreater]_vars

\* C14 witness: a scan has ended in which two points share the maximal
\* profit and a point of lower profit lies before them; the earlier of the
\* two is the one reported.
C14_Witness ==
  /\ pc = "done"
  /\ \E h, i, j \in 1..Len(scanned) :
       /\ h < i /\ i < j
       /\ Lt(scanned[h].profitFast, scanned[i].profitFast)
       /\ scanned[i].profitFast = scanned[j].profitFast
       /\ best.profitFast = scanned[i].profitFast
       /\ best.pFast = scanned[i].pFast

\* C15: for the same workers A, B and the same C, F,
\* compareWorkersWithVerification and the cost part of
\* compareWorkersCostAndSpeed return the same costA and costB, the same
\* cheaper label and the same diff, cost differences at or below 1e-9
\* included.
C15_ComparatorsAgreeOnCost ==
  /\ prev.fn = "compareWorkersWithVerification"
  /\ call.fn = "compareWorkersCostAndSpeed"
  /\ call.args.workerA = prev.args.workerA
  /\ call.args.workerB = prev.args.workerB
  /\ call.args.sharedCost = prev.args.shared
  => /\ call.ret.cost.costA = prev.ret.costA
     /\ call.ret.cost.costB = prev.ret.costB
     /\ call.ret.cost.cheaper = prev.ret.cheaper
     /\ call.ret.cost.diff = prev.ret.diff

====
